---------------------------- MODULE Spec2Model ----------------------------
(***************************************************************************)
(* Model of the analytics engine of monitor-deportivo-dash:                *)
(*   db.py      training load, ACWR, questionnaire store                   *)
(*   db.py      users, sensor readings, store failures                     *)
(*   app.py     submit_selected (save + risk alerts), the session and      *)
(*              upload callbacks                                           *)
(*   sensors.py load_ecg_and_compute_bpm (beat detection, BPM, HRV),       *)
(*              parse_csv_contents                                         *)
(*                                                                         *)
(* Python floats are modelled as exact rationals n/d (d > 0); a Python     *)
(* value is a record [t, n, d, s] with t in "none", "num", "str".          *)
(***************************************************************************)
EXTENDS Integers, Sequences, FiniteSets, TLC

VARIABLES
    responses,      \* compute_session_load_from_responses: its argument
    load,           \* ... and its return value (Pending before the call)
    latest,         \* submit_selected: the last 'general' entry (id 0: None)
    acwr_data,      \* submit_selected: what compute_acwr returned
    alerts,         \* submit_selected: the alert chosen ("pending" before)
    questionnaires, \* table questionnaires: the rows, in insertion (id) order
    clock,          \* the wall clock, in days
    op,             \* the last operation on the store and its arguments
    df,             \* load_ecg_and_compute_bpm: the parsed upload
    fs,             \* ... its sampling rate
    SCIPY_AVAILABLE, \* whether scipy.signal was imported
    offset,         \* a constant added to every sample of df
    ecg,            \* the outcome of load_ecg_and_compute_bpm(df, fs=fs)
    ecg_offset,     \* the outcome for df with offset added
    users,          \* table users, in order of id
    session,        \* the data of session-store
    page,           \* page-content and whether display_page is due
    sensors_data,   \* table sensors_data, in insertion order
    store_up,       \* whether the database can be reached
    feedback,       \* what the last callback returned or raised
    proc            \* the calls in progress in concurrent sessions

analytics == <<responses, load, latest, acwr_data, alerts, questionnaires, clock, op>>

sensor == <<df, fs, SCIPY_AVAILABLE, offset, ecg, ecg_offset>>

app == <<users, session, page, sensors_data, store_up, feedback>>

vars == <<analytics, sensor, app, proc>>

NoSession == [kind |-> "None", user_id |-> 0, username |-> ""]

Feedback(callback, args, fault, message, saved) ==
    [callback |-> callback, args |-> args, fault |-> fault, message |-> message,
     saved |-> saved]

AppIdle ==
    /\ users = <<>>
    /\ session = NoSession
    /\ page = [shown |-> "none", stale |-> TRUE]
    /\ sensors_data = <<>>
    /\ store_up = TRUE
    /\ feedback = Feedback("none", <<>>, "none", "", <<>>)

---------------------------------------------------------------------------
(* Python values                                                           *)

NoneV == [t |-> "none", n |-> 0, d |-> 1, s |-> ""]

Num(a, b) == [t |-> "num", n |-> a, d |-> b, s |-> ""]

Str(x) == [t |-> "str", n |-> 0, d |-> 1, s |-> x]

Pending == [t |-> "pending", n |-> 0, d |-> 1, s |-> ""]

Raised(x) == [t |-> "raise", n |-> 0, d |-> 1, s |-> x]

IsNum(v) == v.t = "num"

IsRaise(v) == v.t = "raise"

\* rational comparisons (denominators are positive)
Lt(a, b) == a.n * b.d < b.n * a.d

Le(a, b) == a.n * b.d <= b.n * a.d

Eq(a, b) == a.n * b.d = b.n * a.d

Mul(a, b) == Num(a.n * b.n, a.d * b.d)

Div(a, b) == Num(a.n * b.d, a.d * b.n)

\* dict.get(key): None when the key is missing
Get(r, k) == IF k \in DOMAIN r THEN r[k] ELSE NoneV

\* float(str): the strings of the model that Python parses as numbers
ParseFloat(x) ==
    CASE x = "7" -> Num(7, 1)
      [] x = "10.5" -> Num(21, 2)
      [] x = "-1" -> Num(-1, 1)
      [] OTHER -> Raised("ValueError")

\* float(v)
PyFloat(v) ==
    CASE v.t = "num" -> v
      [] v.t = "str" -> ParseFloat(v.s)
      [] OTHER -> Raised("TypeError")

\* truth value of a Python value (None, 0 and "" are falsy)
Truthy(v) ==
    CASE v.t = "none" -> FALSE
      [] v.t = "num" -> v.n # 0
      [] v.t = "str" -> v.s # ""
      [] OTHER -> TRUE

---------------------------------------------------------------------------
(* db.py: training load                                                    *)

\* the body of the try block of compute_session_load_from_responses
SessionLoadBodyLax(resp) ==
    LET rpe == Get(resp, "rpe")
        duracion == Get(resp, "duracion")
    IN  IF rpe = NoneV \/ duracion = NoneV THEN NoneV
        ELSE LET rpe_v == PyFloat(rpe)
                 dur_v == PyFloat(duracion)
             IN  IF IsRaise(rpe_v) THEN rpe_v
                 ELSE IF IsRaise(dur_v) THEN dur_v
                 ELSE Mul(rpe_v, dur_v)

SessionLoadBodyStrict(resp) ==
    LET rpe == Get(resp, "rpe")
        duracion == Get(resp, "duracion")
    IN  IF rpe = NoneV \/ duracion = NoneV THEN NoneV
        ELSE LET rpe_v == PyFloat(rpe)
                 dur_v == PyFloat(duracion)
             IN  IF IsRaise(rpe_v) THEN rpe_v
                 ELSE IF IsRaise(dur_v) THEN dur_v
                 ELSE IF ~(Lt(Num(0, 1), rpe_v) /\ Lt(rpe_v, Num(10, 1))) THEN NoneV
                 ELSE IF Lt(dur_v, Num(0, 1)) THEN NoneV
                 ELSE Mul(rpe_v, dur_v)

SessionLoadBody(resp) ==
    LET rpe == Get(resp, "rpe")
        duracion == Get(resp, "duracion")
    IN  IF rpe = NoneV \/ duracion = NoneV THEN NoneV
        ELSE LET rpe_v == PyFloat(rpe)
                 dur_v == PyFloat(duracion)
             IN  IF IsRaise(rpe_v) THEN rpe_v
                 ELSE IF IsRaise(dur_v) THEN dur_v
                 ELSE IF ~(Le(Num(0, 1), rpe_v) /\ Le(rpe_v, Num(10, 1))) THEN NoneV
                 ELSE IF Lt(dur_v, Num(0, 1)) THEN NoneV
                 ELSE Mul(rpe_v, dur_v)

\* except (ValueError, TypeError): return None; anything else propagates
compute_session_load_from_responses(resp) ==
    LET r == SessionLoadBody(resp)
    IN  IF IsRaise(r) /\ r.s \in {"ValueError", "TypeError"} THEN NoneV ELSE r

---------------------------------------------------------------------------
(* app.py: the risk alert rules of submit_selected                         *)

\* a row of get_questionnaire_history; id 0 stands for "no row" (None)
Entry(i, q, r, ts) ==
    [id |-> i, questionnaire_id |-> q, responses |-> r, timestamp |-> ts]

NoResponses == [k \in {} |-> NoneV]

NoEntry == Entry(0, "", NoResponses, 0)

\* the return value of compute_acwr; present = FALSE stands for None
AcwrResult(am, cm, r) ==
    [present |-> TRUE, acute_mean |-> am, chronic_mean |-> cm, acwr |-> r]

NoAcwr ==
    [present |-> FALSE, acute_mean |-> NoneV, chronic_mean |-> NoneV,
     acwr |-> NoneV]

\* x or 0
OrZero(v) == IF Truthy(v) THEN v ELSE Num(0, 1)

\* the if / elif chain on dolor, fatiga and acwr_val (acwr_val: NoneV or a number)
RiskRulesAcwrFirst(dolor, fatiga, acwr_val) ==
    IF Truthy(acwr_val) /\ Lt(Num(14, 10), acwr_val) THEN "Caution"
    ELSE IF Truthy(acwr_val) /\ Le(Num(1, 1), acwr_val) /\ Le(acwr_val, Num(125, 100))
         THEN "Optimal"
    ELSE IF Lt(Num(6, 1), dolor) \/ Lt(Num(8, 1), fatiga) THEN "HighRisk"
    ELSE "Monitoring"

RiskRules(dolor, fatiga, acwr_val) ==
    IF Lt(Num(6, 1), dolor) \/ Lt(Num(8, 1), fatiga) THEN "HighRisk"
    ELSE IF Truthy(acwr_val) /\ Lt(Num(14, 10), acwr_val) THEN "Caution"
    ELSE IF Truthy(acwr_val) /\ Le(Num(1, 1), acwr_val) /\ Le(acwr_val, Num(125, 100))
         THEN "Optimal"
    ELSE "Monitoring"

\* the alert of submit_selected for the latest 'general' entry and the ACWR;
\* a float() that fails raises out of the callback
EvaluateRisk(lat, ad) ==
    IF lat.id = 0 THEN "Insufficient"
    ELSE LET fatiga == PyFloat(OrZero(Get(lat.responses, "fatiga")))
             dolor == PyFloat(OrZero(Get(lat.responses, "dolor")))
             acwr_val == IF ad.present THEN ad.acwr ELSE NoneV
         IN  IF IsRaise(fatiga) THEN fatiga.s
             ELSE IF IsRaise(dolor) THEN dolor.s
             ELSE RiskRules(dolor, fatiga, acwr_val)

Classes == {"HighRisk", "Caution", "Optimal", "Monitoring", "Insufficient"}

RiskIdle ==
    /\ latest = NoEntry
    /\ acwr_data = NoAcwr
    /\ alerts = "idle"

---------------------------------------------------------------------------
(* db.py: the questionnaire store, training-load history and ACWR.         *)
(* The store's CURRENT_TIMESTAMP and the application's datetime.now() are  *)
(* read from the one clock, counted in whole days.                         *)

Row(i, u, q, r, ts) ==
    [id |-> i, user_id |-> u, questionnaire_id |-> q, responses |-> r,
     timestamp |-> ts]

\* INSERT INTO questionnaires: AUTOINCREMENT id, timestamp CURRENT_TIMESTAMP
save_questionnaire(log, now, u, qid, resp) ==
    Append(log, Row(Len(log) + 1, u, qid, resp, now))

\* the WHERE clause with the questionnaire_id condition forgotten
SelectedAnyKind(r, now, u, qid, days) ==
    IF qid # "" /\ days # 0
    THEN r.user_id = u /\ r.timestamp >= now - days
    ELSE r.user_id = u

\* the WHERE clause with the user_id condition forgotten
SelectedAnyUser(r, now, u, qid, days) ==
    IF qid # "" /\ days # 0
    THEN r.questionnaire_id = qid /\ r.timestamp >= now - days
    ELSE IF qid # ""
    THEN r.questionnaire_id = qid
    ELSE TRUE

\* the WHERE clause of the three SELECTs; qid "" and days 0 are the falsy
\* arguments (None), which drop their condition
Selected(r, now, u, qid, days) ==
    IF qid # "" /\ days # 0
    THEN r.user_id = u /\ r.questionnaire_id = qid /\ r.timestamp >= now - days
    ELSE IF qid # ""
    THEN r.user_id = u /\ r.questionnaire_id = qid
    ELSE r.user_id = u

\* rows come back ORDER BY timestamp; the log is in timestamp order
get_questionnaire_history(log, now, u, qid, days) ==
    LET rows == SelectSeq(log, LAMBDA r : Selected(r, now, u, qid, days))
    IN  [i \in DOMAIN rows |->
            Entry(rows[i].id, rows[i].questionnaire_id, rows[i].responses,
                  rows[i].timestamp)]

get_training_load_history(log, now, u, days) ==
    LET history == get_questionnaire_history(log, now, u, "general", days)
    IN  [i \in DOMAIN history |->
            [timestamp |-> history[i].timestamp,
             load |-> compute_session_load_from_responses(history[i].responses)]]

Add(a, b) == Num(a.n * b.d + b.n * a.d, a.d * b.d)

RECURSIVE SumSeq(_)
SumSeq(vals) ==
    IF vals = <<>> THEN Num(0, 1) ELSE Add(Head(vals), SumSeq(Tail(vals)))

\* sum(vals) / len(vals)
Mean(vals) == LET t == SumSeq(vals) IN Num(t.n, t.d * Len(vals))

\* [d["load"] for d in h if d["load"] is not None], with None read as 0
ValidLoadsNoneAsZero(h) ==
    [i \in DOMAIN h |-> IF h[i].load = NoneV THEN Num(0, 1) ELSE h[i].load]

\* [d["load"] for d in h if d["load"] is not None]
ValidLoads(h) ==
    LET kept == SelectSeq(h, LAMBDA d : d.load # NoneV)
    IN  [i \in DOMAIN kept |-> kept[i].load]

\* compute_acwr from the two histories it has read
AcwrOf(acute, chronic) ==
    LET acute_vals == ValidLoads(acute)
        chronic_vals == ValidLoads(chronic)
    IN  IF acute_vals = <<>> THEN NoAcwr
        ELSE IF chronic_vals = <<>> THEN NoAcwr
        ELSE LET acute_mean == Mean(acute_vals)
                 chronic_mean == Mean(chronic_vals)
             IN  IF chronic_mean.n = 0 THEN NoAcwr
                 ELSE AcwrResult(acute_mean, chronic_mean,
                                 Div(acute_mean, chronic_mean))

\* compute_acwr with the chronic window read for both histories
compute_acwr_one_window(log, now, u, acute_days, chronic_days) ==
    AcwrOf(get_training_load_history(log, now, u, chronic_days),
           get_training_load_history(log, now, u, chronic_days))

compute_acwr(log, now, u, acute_days, chronic_days) ==
    AcwrOf(get_training_load_history(log, now, u, acute_days),
           get_training_load_history(log, now, u, chronic_days))

\* users.id of the registered users
Users == {1, 2}

ACUTE_DAYS == 7

CHRONIC_DAYS == 28

Op(name, u, a, c) == [name |-> name, user_id |-> u, acute_days |-> a, chronic_days |-> c]

StoreIdle ==
    /\ questionnaires = <<>>
    /\ clock = 0
    /\ op = Op("idle", 0, 0, 0)

---------------------------------------------------------------------------
(* app.py: submit_selected                                                 *)

\* the questionnaires of questionnaires.py and the keys of their fields
QUESTIONNAIRES ==
    [general |-> <<"rpe", "duracion", "dolor", "fatiga">>,
     bienestar |-> <<"suenio">>]

\* next(values_iter, None)
NextValue(all_values, k) == IF k <= Len(all_values) THEN all_values[k] ELSE NoneV

\* the loop over checklist_values with the values_iter at position k: every
\* known questionnaire takes its fields' values in order and is saved
RECURSIVE SaveSelected(_, _, _, _, _, _)
SaveSelected(log, now, u, checklist_values, all_values, k) ==
    IF checklist_values = <<>> THEN log
    ELSE LET qid == Head(checklist_values)
         IN  IF qid \notin DOMAIN QUESTIONNAIRES
             THEN SaveSelected(log, now, u, Tail(checklist_values), all_values, k)
             ELSE LET keys == QUESTIONNAIRES[qid]
                      resp == [key \in { keys[j] : j \in DOMAIN keys } |->
                                 NextValue(all_values,
                                     k + (CHOOSE j \in DOMAIN keys : keys[j] = key) - 1)]
                  IN  SaveSelected(save_questionnaire(log, now, u, qid, resp), now, u,
                                   Tail(checklist_values), all_values, k + Len(keys))

\* history_general[0] read in place of history_general[-1]
LatestOfFirst(history) ==
    IF history = <<>> THEN {NoEntry} ELSE {history[1]}

\* history_general[-1]: the last row in timestamp order; rows of one
\* timestamp come back in an order the store does not fix
LatestOf(history) ==
    IF history = <<>> THEN {NoEntry}
    ELSE { history[i] : i \in { j \in DOMAIN history :
                \A m \in DOMAIN history : history[m].timestamp <= history[j].timestamp } }

\* compute_acwr(user_id) is reached only past the two float() calls
AcwrForAlerts(lat, log, now, u) ==
    IF lat.id = 0 THEN NoAcwr
    ELSE IF IsRaise(PyFloat(OrZero(Get(lat.responses, "fatiga")))) THEN NoAcwr
    ELSE IF IsRaise(PyFloat(OrZero(Get(lat.responses, "dolor")))) THEN NoAcwr
    ELSE compute_acwr(log, now, u, ACUTE_DAYS, CHRONIC_DAYS)

---------------------------------------------------------------------------
(* sensors.py: load_ecg_and_compute_bpm.                                   *)
(* Samples are integers and sample indices count from 0 as in numpy.  A    *)
(* conditioned signal is kept up to a positive common factor: every later  *)
(* comparison (local maxima, height against the deviation, priorities) is  *)
(* unchanged by such a factor.                                             *)

Abs(x) == IF x < 0 THEN 0 - x ELSE x

RECURSIVE GcdNat(_, _)
GcdNat(a, b) == IF b = 0 THEN a ELSE GcdNat(b, a % b)

GCD(a, b) == GcdNat(Abs(a), Abs(b))

Reduce(q) ==
    LET g == GCD(q.n, q.d)
        sgn == IF q.d < 0 THEN 0 - 1 ELSE 1
    IN  IF g = 0 THEN q ELSE Num(sgn * (q.n \div g), sgn * (q.d \div g))

Sub(a, b) == Num(a.n * b.d - b.n * a.d, a.d * b.d)

RECURSIVE SumInt(_)
SumInt(x) == IF x = <<>> THEN 0 ELSE Head(x) + SumInt(Tail(x))

RECURSIVE GcdSeq(_)
GcdSeq(x) == IF x = <<>> THEN 0 ELSE GCD(Head(x), GcdSeq(Tail(x)))

Normalise(x) ==
    LET g == GcdSeq(x)
    IN  IF g = 0 THEN x ELSE [i \in DOMAIN x |-> x[i] \div g]

\* Len(x)^2 * np.var(x): np.std(x) is the root of the mean squared deviation
VarN2(x) ==
    Len(x) * SumInt([i \in DOMAIN x |-> x[i] * x[i]]) - SumInt(x) * SumInt(x)

\* signal - np.mean(signal), times len(signal)
Center(signal) ==
    [i \in DOMAIN signal |-> Len(signal) * signal[i] - SumInt(signal)]

\* the abscissa of sample i, centred so that the abscissae sum to zero
Abscissa(i, n) == 2 * i - (n + 1)

\* scipy.signal.detrend(y), type 'linear': the residual of the least-squares
\* line through y, times lcm(n, Sxx)
Detrend(y) ==
    LET n == Len(y)
        Sxx == SumInt([i \in DOMAIN y |-> Abscissa(i, n) * Abscissa(i, n)])
        Sxy == SumInt([i \in DOMAIN y |-> Abscissa(i, n) * y[i]])
        L == (n * Sxx) \div GCD(n, Sxx)
    IN  [i \in DOMAIN y |->
            L * y[i] - (L \div n) * SumInt(y) - (L \div Sxx) * Sxy * Abscissa(i, n)]

\* sig = detrend(signal - np.mean(signal))
Condition(signal) == Normalise(Detrend(Normalise(Center(signal))))

\* distance = int(0.4 * fs); min_dist = int(0.4 * fs)
MinDist(rate) == (2 * rate) \div 5

\* the samples in ascending order of the indices in S
RECURSIVE Ascending(_)
Ascending(S) ==
    IF S = {} THEN <<>>
    ELSE LET m == CHOOSE p \in S : \A q \in S : p <= q
         IN  <<m>> \o Ascending(S \ {m})

\* scipy.signal.find_peaks, step 1 (_local_maxima_1d): a sample above its
\* left neighbour whose plateau ends before the last sample and is followed
\* by a lower one; the peak is the midpoint of the plateau
RECURSIVE PlateauEnd(_, _)
PlateauEnd(x, i) ==
    IF i < Len(x) /\ x[i + 1] = x[i] THEN PlateauEnd(x, i + 1) ELSE i

LocalMaxima(x) ==
    { (i + PlateauEnd(x, i)) \div 2 :
        i \in { k \in 2..(Len(x) - 1) :
                  /\ x[k - 1] < x[k]
                  /\ PlateauEnd(x, k) < Len(x)
                  /\ x[PlateauEnd(x, k) + 1] < x[k] } }

\* step 2, height=np.std(sig)*0.5: x[p] >= 0.5 * std(x)
HighEnough(x, p) ==
    x[p] >= 0 /\ 4 * Len(x) * Len(x) * x[p] * x[p] >= VarN2(x)

\* step 3 (_select_by_peak_distance): from the highest peak to the lowest
\* (argsort is stable here, so of equal peaks the later one first), a peak
\* still kept removes the peaks nearer than distance on either side
RECURSIVE SelectByPeakDistance(_, _, _, _)
SelectByPeakDistance(x, keep, todo, distance) ==
    IF todo = {} THEN keep
    ELSE LET j == CHOOSE p \in todo :
                    \A q \in todo : x[q] < x[p] \/ (x[q] = x[p] /\ q <= p)
         IN  IF j \notin keep
             THEN SelectByPeakDistance(x, keep, todo \ {j}, distance)
             ELSE SelectByPeakDistance(x,
                      { k \in keep : k = j \/ Abs(k - j) >= distance },
                      todo \ {j}, distance)

\* find_peaks(sig, distance=distance, height=np.std(sig)*0.5), as 0-based
\* indices; scipy raises ValueError for a distance below 1
find_peaks(x, distance) ==
    LET high == { p \in LocalMaxima(x) : HighEnough(x, p) }
        kept == Ascending(SelectByPeakDistance(x, high, high, distance))
    IN  [i \in DOMAIN kept |-> kept[i] - 1]

\* the fallback threshold without the mean: signal > np.std(signal)
AboveThresholdStdOnly(signal, i) ==
    LET n == Len(signal)
    IN  signal[i] > 0 /\ n * signal[i] * n * signal[i] > VarN2(signal)

\* thr = np.mean(signal) + np.std(signal); signal > thr
AboveThreshold(signal, i) ==
    LET c == Len(signal) * signal[i] - SumInt(signal)
    IN  c > 0 /\ c * c > VarN2(signal)

\* dedup = [peaks[0]]; for p in peaks[1:]: if p - dedup[-1] > min_dist: ...
RECURSIVE Dedup(_, _, _)
Dedup(dedup, peaks, min_dist) ==
    IF peaks = <<>> THEN dedup
    ELSE IF Head(peaks) - dedup[Len(dedup)] > min_dist
         THEN Dedup(Append(dedup, Head(peaks)), Tail(peaks), min_dist)
         ELSE Dedup(dedup, Tail(peaks), min_dist)

\* the fallback's beats as 0-based indices (empty when nothing is above thr)
FallbackBeats(signal, rate) ==
    LET above == Ascending({ i \in DOMAIN signal : AboveThreshold(signal, i) })
        peaks == [i \in DOMAIN above |-> above[i] - 1]
    IN  IF peaks = <<>> THEN <<>>
        ELSE Dedup(<<peaks[1]>>, Tail(peaks), MinDist(rate))

\* the sum of rationals, in lowest terms
RECURSIVE RSum(_)
RSum(vals) ==
    IF vals = <<>> THEN Num(0, 1) ELSE Reduce(Add(Head(vals), RSum(Tail(vals))))

\* np.mean of a non-empty sequence of rationals
RMean(vals) == LET t == RSum(vals) IN Reduce(Num(t.n, t.d * Len(vals)))

\* np.var: the mean of the squared deviations from the mean
RVar(vals) ==
    LET mu == RMean(vals)
    IN  RMean([i \in DOMAIN vals |->
                 Reduce(Mul(Sub(vals[i], mu), Sub(vals[i], mu)))])

\* float(np.std(ibis) * 1000.0): a deviation in milliseconds is carried as
\* its variance in s^2, the value being 1000 * sqrt(n / d)
StdMs(v) == [t |-> "num", n |-> v.n, d |-> v.d, s |-> "1000*sqrt"]

\* ibis = np.diff(peaks / float(fs)), in seconds
Ibis(peaks, rate) ==
    [i \in 1..(Len(peaks) - 1) |-> Reduce(Num(peaks[i + 1] - peaks[i], rate))]

\* mean_hr = 60.0 / np.mean(ibis)
mean_hr(peaks, rate) == Reduce(Div(Num(60, 1), RMean(Ibis(peaks, rate))))

\* sdnn = float(np.std(ibis) * 1000.0)
sdnn(peaks, rate) == StdMs(RVar(Ibis(peaks, rate)))

\* the fallback BPM computed from the intervals instead of the duration
fallback_bpm_from_ibis(dedup, n, rate) == mean_hr(dedup, rate)

\* length_sec = len(signal) / float(fs); bpm = (nbeats / length_sec) * 60.0
fallback_bpm(dedup, n, rate) == Reduce(Num(60 * Len(dedup) * rate, n))

MIN_SAMPLES == 10

Frame(sig) == [present |-> TRUE, signal |-> sig]

NoFrame == [present |-> FALSE, signal |-> <<>>]

\* what a call returns (bpm, hrv) or raises, with the beats it detected
EcgResult(status, peaks, bpm, hrv) ==
    [status |-> status, peaks |-> peaks, bpm |-> bpm, hrv |-> hrv]

EcgPending == EcgResult("pending", <<>>, NoneV, NoneV)

\* the primary path (SCIPY_AVAILABLE)
PrimaryPath(signal, rate) ==
    IF MinDist(rate) < 1 THEN EcgResult("ValueError", <<>>, NoneV, NoneV)
    ELSE LET peaks == find_peaks(Condition(signal), MinDist(rate))
         IN  IF Len(peaks) < 2 THEN EcgResult("ok", peaks, NoneV, NoneV)
             ELSE EcgResult("ok", peaks, mean_hr(peaks, rate), sdnn(peaks, rate))

\* the fallback path
FallbackPath(signal, rate) ==
    LET dedup == FallbackBeats(signal, rate)
    IN  IF dedup = <<>> THEN EcgResult("ok", <<>>, NoneV, NoneV)
        ELSE EcgResult("ok", dedup, fallback_bpm(dedup, Len(signal), rate),
                 IF Len(dedup) >= 2 THEN sdnn(dedup, rate) ELSE NoneV)

\* load_ecg_and_compute_bpm(df, fs=rate) for a frame whose only numeric
\* column is the signal
load_ecg_and_compute_bpm(frame, rate, scipy) ==
    IF ~frame.present \/ Len(frame.signal) < MIN_SAMPLES
    THEN EcgResult("ok", <<>>, NoneV, NoneV)
    ELSE IF scipy THEN PrimaryPath(frame.signal, rate)
         ELSE FallbackPath(frame.signal, rate)

SensorIdle ==
    /\ df = NoFrame
    /\ fs = 0
    /\ SCIPY_AVAILABLE = FALSE
    /\ offset = 0
    /\ ecg = EcgPending
    /\ ecg_offset = EcgPending

AnalyticsIdle ==
    /\ responses = NoResponses
    /\ load = Pending
    /\ RiskIdle
    /\ StoreIdle

---------------------------------------------------------------------------
(* db.py: the table users; app.py: the session callbacks.                  *)

\* len() of the strings the specification uses
StrLen(x) ==
    CASE x = "" -> 0
      [] x = "bo" -> 2
      [] x = "abc" -> 3
      [] x = "ana" -> 3
      [] x = "eva" -> 3
      [] OTHER -> 7

UserRow(i, username, password, last_login) ==
    [id |-> i, username |-> username, password |-> password, last_login |-> last_login]

\* register_user: the table after the call and what the call returns
register_user(tbl, up, username, password) ==
    IF username = "" \/ StrLen(username) < 3
    THEN [users |-> tbl, ok |-> FALSE]
    ELSE IF password = "" \/ StrLen(password) < 6
    THEN [users |-> tbl, ok |-> FALSE]
    ELSE IF ~up \/ \E i \in DOMAIN tbl : tbl[i].username = username
    THEN [users |-> tbl, ok |-> FALSE]
    ELSE [users |-> Append(tbl, UserRow(Len(tbl) + 1, username, password, 0 - 1)),
          ok |-> TRUE]

\* authenticate_user: the table after the call and the user_id (0 for None)
authenticate_user(tbl, up, now, username, password) ==
    IF up /\ \E i \in DOMAIN tbl :
                tbl[i].username = username /\ tbl[i].password = password
    THEN LET i == CHOOSE j \in DOMAIN tbl : tbl[j].username = username
         IN  [users |-> [tbl EXCEPT ![i].last_login = now], user_id |-> tbl[i].id]
    ELSE [users |-> tbl, user_id |-> 0]

\* get_user_by_id: "dict" for the row as a dict, "None" otherwise
get_user_by_id(tbl, up, user_id) ==
    IF up /\ \E i \in DOMAIN tbl : tbl[i].id = user_id THEN "dict" ELSE "None"

Payload(user_id, username) ==
    [kind |-> "payload", user_id |-> user_id, username |-> username]

EmptySession == [kind |-> "{}", user_id |-> 0, username |-> ""]

\* session_data and "user_id" in session_data
HasUserId(s) == s.kind = "payload"

\* not session_data or not session_data.get("user_id")
NoActiveSession(s) == s.kind # "payload" \/ s.user_id = 0

\* display_page: the layout returned, or the KeyError of u[1] on a dict
display_page(tbl, up, s) ==
    IF HasUserId(s)
    THEN IF get_user_by_id(tbl, up, s.user_id) = "dict" THEN "KeyError"
         ELSE "dashboard"
    ELSE "login"

---------------------------------------------------------------------------
(* sensors.py: parse_csv_contents; app.py: the upload callback.            *)
(* An upload is described by what its text does to the calls made on it:   *)
(* how many commas contents holds, whether the base64 part can be decoded, *)
(* and what pd.read_csv makes of the text with either separator.           *)

\* a DataFrame: its rows, whether it has a numeric column, whether its
\* first column can be cast to float, and the samples of the column used
Table(rows, numeric, castable, signal) ==
    [rows |-> rows, numeric |-> numeric, castable |-> castable, signal |-> signal]

NoTable == Table(0 - 1, FALSE, FALSE, <<>>)

Contents(commas, b64, by_comma, by_semicolon) ==
    [commas |-> commas, b64 |-> b64, by_comma |-> by_comma,
     by_semicolon |-> by_semicolon]

ParseResult(status, table) == [status |-> status, table |-> table]

\* parse_csv_contents: a DataFrame, None, or the exception it raises
parse_csv_contents(contents) ==
    IF contents.commas # 1 THEN ParseResult("ValueError", NoTable)
    ELSE IF ~contents.b64 THEN ParseResult("binascii.Error", NoTable)
    ELSE IF contents.by_comma # NoTable THEN ParseResult("df", contents.by_comma)
    ELSE IF contents.by_semicolon # NoTable
         THEN ParseResult("df", contents.by_semicolon)
         ELSE ParseResult("None", NoTable)

DEFAULT_FS == 250

\* load_ecg_and_compute_bpm(df): the guard, the choice of the column and
\* the analysis of the column chosen
load_ecg_of_table(table, scipy) ==
    IF table.rows < MIN_SAMPLES THEN EcgResult("ok", <<>>, NoneV, NoneV)
    ELSE IF ~table.numeric /\ ~table.castable
         THEN EcgResult("ValueError", <<>>, NoneV, NoneV)
         ELSE load_ecg_and_compute_bpm(Frame(table.signal), DEFAULT_FS, scipy)

UploadResult(status, bpm, hrv) == [status |-> status, bpm |-> bpm, hrv |-> hrv]

\* bpm, hrv = sensors.load_ecg_and_compute_bpm(df), or the exception raised
ResultOfEcg(r) ==
    IF r.status # "ok" THEN UploadResult(r.status, NoneV, NoneV)
    ELSE UploadResult("result", r.bpm, r.hrv)

\* what follows df = sensors.parse_csv_contents(contents, filename)
ResultOfParse(parsed, scipy) ==
    IF parsed.status = "None" THEN UploadResult("err", NoneV, NoneV)
    ELSE IF parsed.status # "df" THEN UploadResult(parsed.status, NoneV, NoneV)
    ELSE ResultOfEcg(load_ecg_of_table(parsed.table, scipy))

\* parse_upload_and_process: (result, err) or the exception raised
parse_upload_and_process(contents, scipy) ==
    ResultOfParse(parse_csv_contents(contents), scipy)

SensorRow(i, u, fname, bpm, hrv, ts) ==
    [id |-> i, user_id |-> u, source_filename |-> fname, bpm |-> bpm,
     hrv |-> hrv, timestamp |-> ts]

\* save_sensor_data that replaces the user's last reading
save_sensor_data_replacing(log, up, now, u, fname, bpm, hrv) ==
    IF ~up THEN log
    ELSE IF \E i \in DOMAIN log : log[i].user_id = u
    THEN LET i == CHOOSE j \in DOMAIN log :
                     log[j].user_id = u /\ \A k \in DOMAIN log : log[k].user_id = u => k <= j
         IN  [log EXCEPT ![i] = SensorRow(i, u, fname, bpm, hrv, now)]
    ELSE Append(log, SensorRow(Len(log) + 1, u, fname, bpm, hrv, now))

\* save_sensor_data: the table after the call (an exception is swallowed)
save_sensor_data(log, up, now, u, fname, bpm, hrv) ==
    IF up THEN Append(log, SensorRow(Len(log) + 1, u, fname, bpm, hrv, now))
    ELSE log

\* get_sensor_history(user_id): [] when the store fails
get_sensor_history(log, up, u) ==
    IF up THEN SelectSeq(log, LAMBDA r : r.user_id = u) ELSE <<>>

\* the loop of handle_upload over the files from the k-th on: the table,
\* the alerts appended ("success" or "danger" per file) and the exception
\* that ended the loop, if any
RECURSIVE ProcessFiles(_, _, _, _, _, _, _, _)
RECURSIVE ProcessFile(_, _, _, _, _, _, _, _, _)
ProcessFile(log, up, now, u, files, k, outputs, scipy, r) ==
    IF r.status = "err"
    THEN ProcessFiles(log, up, now, u, files, k + 1, Append(outputs, "danger"), scipy)
    ELSE IF r.status # "result"
    THEN [log |-> log, outputs |-> outputs, fault |-> r.status]
    ELSE ProcessFiles(
             save_sensor_data(log, up, now, u, files[k].filename, r.bpm, r.hrv),
             up, now, u, files, k + 1, Append(outputs, "success"), scipy)

ProcessFiles(log, up, now, u, files, k, outputs, scipy) ==
    IF k > Len(files) THEN [log |-> log, outputs |-> outputs, fault |-> "none"]
    ELSE ProcessFile(log, up, now, u, files, k, outputs, scipy,
                     parse_upload_and_process(files[k].contents, scipy))

---------------------------------------------------------------------------
(* Specification Spec: sessions of the users submitting questionnaires     *)
(* while the clock advances.                                               *)

MaxLog == 2

MaxClock == 15

TickDays == 2 * ACUTE_DAYS + 1

Checklists ==
    { <<>>, <<"general">>, <<"bienestar">>, <<"general", "bienestar">>,
      <<"bienestar", "general">>, <<"otro">> }

\* the values of the q-field inputs, in layout order
FormInputs ==
    { <<>>,
      <<Num(1, 1), Num(1, 1), Num(7, 1), Num(0, 1)>>,
      <<Num(7, 1), Num(1, 1), Str("abc"), Num(0, 1)>> }

Init ==
    /\ AppIdle
    /\ proc = <<>>
    /\ SensorIdle
    /\ StoreIdle
    /\ RiskIdle
    /\ responses = NoResponses
    /\ load = Pending

\* submit_selected without a session: nothing is saved, no alert is shown
SubmitNoSession ==
    /\ op' = Op("submit_selected", 0, 0, 0)
    /\ latest' = NoEntry
    /\ acwr_data' = NoAcwr
    /\ alerts' = ""
    /\ UNCHANGED <<responses, load, questionnaires, clock, sensor, app, proc>>

SubmitSelected ==
    \E u \in Users, checklist_values \in Checklists, all_values \in FormInputs :
        LET saved == SaveSelected(questionnaires, clock, u, checklist_values,
                                  all_values, 1)
            history_general == get_questionnaire_history(saved, clock, u, "general", 0)
        IN  /\ Len(saved) <= MaxLog
            /\ questionnaires' = saved
            /\ op' = Op("submit_selected", u, 0, 0)
            /\ latest' \in LatestOf(history_general)
            /\ acwr_data' = AcwrForAlerts(latest', saved, clock, u)
            /\ alerts' = EvaluateRisk(latest', acwr_data')
            /\ UNCHANGED <<responses, load, clock, sensor, app, proc>>

Tick ==
    /\ clock + TickDays <= MaxClock
    /\ clock' = clock + TickDays
    /\ op' = Op("tick", 0, 0, 0)
    /\ latest' = NoEntry
    /\ acwr_data' = NoAcwr
    /\ alerts' = "idle"
    /\ UNCHANGED <<responses, load, questionnaires, sensor, app, proc>>

Next == SubmitNoSession \/ SubmitSelected \/ Tick

Spec == Init /\ [][Next]_vars

Submitted == op.name = "submit_selected" /\ op.user_id # 0

RowsOf(u) == { i \in DOMAIN questionnaires : questionnaires[i].user_id = u }

GeneralRowsOf(u) ==
    { i \in RowsOf(u) : questionnaires[i].questionnaire_id = "general" }

\* C2 as stated: Insufficient exactly when the user has no saved response of
\* any questionnaire kind.
C2_InsufficientIffNoResponse ==
    Submitted => (alerts = "Insufficient" <=> RowsOf(op.user_id) = {})

\* C2, amended: Insufficient exactly when the user has no saved response of
\* the 'general' kind (whatever other kinds are saved); then none of the rules
\* HighRisk, Caution, Optimal is evaluated, and a user with a saved 'general'
\* response is never classified Insufficient.
C2_InsufficientIffNoGeneral ==
    Submitted =>
        /\ alerts = "Insufficient" <=> GeneralRowsOf(op.user_id) = {}
        /\ alerts = "Insufficient" => (latest = NoEntry /\ acwr_data = NoAcwr)

\* Insufficient for a user whose 'bienestar' response is saved
C2_Witness ==
    /\ Submitted
    /\ alerts = "Insufficient"
    /\ RowsOf(op.user_id) # {}

---------------------------------------------------------------------------
(* Specification SpecLoad: compute_session_load_from_responses applied to  *)
(* every field mapping over LoadValues.                                    *)

LoadValues ==
    { NoneV, Str("abc"), Str(""), Str("7"), Str("10.5"),
      Num(-5, 1), Num(-1, 1), Num(0, 1), Num(1, 2), Num(3, 1),
      Num(10, 1), Num(21, 2), Num(11, 1), Num(30, 1) }

LoadMappings ==
    UNION { [K -> LoadValues] : K \in SUBSET {"rpe", "duracion"} }

InitLoad ==
    /\ AppIdle
    /\ proc = <<>>
    /\ SensorIdle
    /\ responses \in LoadMappings
    /\ load = Pending
    /\ RiskIdle
    /\ StoreIdle

ComputeSessionLoad ==
    /\ load = Pending
    /\ load' = compute_session_load_from_responses(responses)
    /\ UNCHANGED <<responses, latest, acwr_data, alerts, questionnaires, clock, op, sensor, app, proc>>

NextLoad == ComputeSessionLoad

SpecLoad == InitLoad /\ [][NextLoad]_vars

\* the number a field stands for, when it is numeric-coercible
Coercible(v) == IsNum(PyFloat(v))

\* C5: for every field mapping whose rpe is in [0,10] and whose duracion is
\* >= 0, the returned load is exactly rpe * duracion.
C5_LoadIsProduct ==
    LET rpe == Get(responses, "rpe")
        dur == Get(responses, "duracion")
    IN  (/\ load # Pending
         /\ Coercible(rpe) /\ Coercible(dur)
         /\ Le(Num(0, 1), PyFloat(rpe)) /\ Le(PyFloat(rpe), Num(10, 1))
         /\ Le(Num(0, 1), PyFloat(dur)))
        => /\ IsNum(load)
           /\ load.n * (PyFloat(rpe).d * PyFloat(dur).d)
                = PyFloat(rpe).n * PyFloat(dur).n * load.d

C5_Witness ==
    /\ responses = [rpe |-> Num(10, 1), duracion |-> Num(30, 1)]
    /\ load = Num(300, 1)

\* C6: the load is absent, and nothing is raised, whenever rpe or duracion is
\* missing or not numeric-coercible, or rpe < 0, or rpe > 10, or duracion < 0.
C6_InvalidIsAbsent ==
    LET rpe == Get(responses, "rpe")
        dur == Get(responses, "duracion")
    IN  (/\ load # Pending
         /\ \/ rpe = NoneV
            \/ dur = NoneV
            \/ ~Coercible(rpe)
            \/ ~Coercible(dur)
            \/ Lt(PyFloat(rpe), Num(0, 1))
            \/ Lt(Num(10, 1), PyFloat(rpe))
            \/ Lt(PyFloat(dur), Num(0, 1)))
        => load = NoneV

C6_Witness ==
    /\ responses = [rpe |-> Num(11, 1), duracion |-> Num(30, 1)]
    /\ load = NoneV

---------------------------------------------------------------------------
(* Specification SpecRisk: the alert rules applied to every latest entry   *)
(* over RiskDolor x RiskFatiga and every ACWR result over RiskAcwr.        *)

RiskDolor ==
    { NoneV, Num(0, 1), Num(6, 1), Num(13, 2), Num(7, 1), Str("7"), Str(""),
      Str("abc") }

RiskFatiga == { NoneV, Num(8, 1), Num(17, 2), Num(9, 1), Str("abc") }

RiskAcwr ==
    { Num(0, 1), Num(3, 5), Num(1, 1), Num(11, 10), Num(13, 12), Num(5, 4),
      Num(13, 10), Num(7, 5), Num(3, 2), Num(2, 1) }

\* a missing key and a None value read the same through dict.get
RiskMappings ==
    UNION { [K -> {NoneV}] : K \in SUBSET {"dolor", "fatiga"} }
    \cup { [dolor |-> x, fatiga |-> y] : x \in RiskDolor, y \in RiskFatiga }

InitRisk ==
    /\ AppIdle
    /\ proc = <<>>
    /\ SensorIdle
    /\ latest \in {NoEntry} \cup { Entry(1, "general", r, 0) : r \in RiskMappings }
    /\ acwr_data \in {NoAcwr}
                     \cup { AcwrResult(Mul(a, Num(3, 1)), Num(3, 1), a) : a \in RiskAcwr }
    /\ alerts = "pending"
    /\ responses = NoResponses
    /\ load = Pending
    /\ StoreIdle

EvaluateAlerts ==
    /\ alerts = "pending"
    /\ alerts' = EvaluateRisk(latest, acwr_data)
    /\ UNCHANGED <<responses, load, latest, acwr_data, questionnaires, clock, op, sensor, app, proc>>

NextRisk == EvaluateAlerts

SpecRisk == InitRisk /\ [][NextRisk]_vars

\* pain and fatigue as the rules read them, when both are numbers
Pain == PyFloat(OrZero(Get(latest.responses, "dolor")))

Fatigue == PyFloat(OrZero(Get(latest.responses, "fatiga")))

AcwrDefined == acwr_data.present

Evaluated ==
    /\ alerts # "pending"
    /\ latest.id # 0
    /\ IsNum(Pain) /\ IsNum(Fatigue)

HighRule == Lt(Num(6, 1), Pain) \/ Lt(Num(8, 1), Fatigue)

CautionRule == AcwrDefined /\ Lt(Num(7, 5), acwr_data.acwr)

OptimalRule ==
    AcwrDefined /\ Le(Num(1, 1), acwr_data.acwr) /\ Le(acwr_data.acwr, Num(5, 4))

\* C1: one classification per evaluation, by first-match precedence:
\* HighRisk if pain > 6 or fatigue > 8, else Caution if ACWR is defined and
\* > 1.4, else Optimal if ACWR is defined and in [1.0, 1.25], else Monitoring;
\* pain = 6 with fatigue = 8 never yields HighRisk.
C1_RiskPrecedence ==
    Evaluated =>
        /\ alerts \in Classes \ {"Insufficient"}
        /\ HighRule => alerts = "HighRisk"
        /\ (~HighRule /\ CautionRule) => alerts = "Caution"
        /\ (~HighRule /\ ~CautionRule /\ OptimalRule) => alerts = "Optimal"
        /\ (~HighRule /\ ~CautionRule /\ ~OptimalRule) => alerts = "Monitoring"
        /\ (Eq(Pain, Num(6, 1)) /\ Eq(Fatigue, Num(8, 1))) => alerts # "HighRisk"

C1_Witness ==
    /\ alerts = "HighRisk"
    /\ Get(latest.responses, "dolor") = Num(7, 1)
    /\ Get(latest.responses, "fatiga") = Num(8, 1)
    /\ acwr_data.present /\ acwr_data.acwr = Num(11, 10)

---------------------------------------------------------------------------
(* Specification SpecAcwr: compute_acwr applied to every store of at most  *)
(* MaxRows rows over AcwrRows, at the window boundaries.                   *)

MaxRows == 3

\* days ago: inside the acute window, on its edge, past it (chronic only),
\* and past the chronic window
AcwrAges == {0, ACUTE_DAYS, ACUTE_DAYS + 1, CHRONIC_DAYS + 1}

AcwrClock == CHRONIC_DAYS + 1

LoadForm(x) == [rpe |-> x, duracion |-> Num(1, 1)]

\* <<user, questionnaire, responses>>
AcwrKinds ==
    { <<1, "general", LoadForm(x)>> : x \in {NoneV, Num(0, 1), Num(3, 1), Num(7, 1)} }
    \cup { <<1, "bienestar", LoadForm(Num(3, 1))>>, <<2, "general", LoadForm(Num(7, 1))>> }

AcwrRows == AcwrKinds \X AcwrAges

\* oldest first: the store's rows are in timestamp order
AcwrLogs ==
    UNION { { f \in [1..n -> AcwrRows] :
                \A i \in 1..(n - 1) : f[i][2] >= f[i + 1][2] } : n \in 0..MaxRows }

MkLog(f) ==
    [i \in DOMAIN f |->
        Row(i, f[i][1][1], f[i][1][2], f[i][1][3], AcwrClock - f[i][2])]

\* <<acute_days, chronic_days>>: the defaults, the windows swapped, and 0
DaysArgs == { <<ACUTE_DAYS, CHRONIC_DAYS>>, <<CHRONIC_DAYS, ACUTE_DAYS>>, <<0, CHRONIC_DAYS>> }

InitAcwr ==
    /\ AppIdle
    /\ proc = <<>>
    /\ SensorIdle
    /\ questionnaires \in { MkLog(f) : f \in AcwrLogs }
    /\ clock = AcwrClock
    /\ op = Op("idle", 0, 0, 0)
    /\ responses = NoResponses
    /\ load = Pending
    /\ RiskIdle

ComputeAcwr ==
    \E u \in Users, dd \in DaysArgs :
        /\ op.name = "idle"
        /\ op' = Op("compute_acwr", u, dd[1], dd[2])
        /\ acwr_data' = compute_acwr(questionnaires, clock, u, dd[1], dd[2])
        /\ UNCHANGED <<responses, load, latest, alerts, questionnaires, clock, sensor, app, proc>>

NextAcwr == ComputeAcwr

SpecAcwr == InitAcwr /\ [][NextAcwr]_vars

\* the two windows of the last compute_acwr call, as read from the store
AcuteWindow ==
    get_training_load_history(questionnaires, clock, op.user_id, op.acute_days)

ChronicWindow ==
    get_training_load_history(questionnaires, clock, op.user_id, op.chronic_days)

\* the samples of a window whose load is present
Present(h) == { i \in DOMAIN h : h[i].load # NoneV }

RECURSIVE Total(_, _)
Total(h, S) ==
    IF S = {} THEN 0
    ELSE LET i == CHOOSE j \in S : TRUE
         IN  h[i].load.n + Total(h, S \ {i})

\* every load of the model's stores is a whole number
WholeLoads(h) == \A i \in Present(h) : h[i].load.d = 1

\* m is the arithmetic mean of the present loads of h
IsMeanOf(m, h) ==
    /\ IsNum(m)
    /\ m.n * Cardinality(Present(h)) = Total(h, Present(h)) * m.d

AcwrCalled == op.name = "compute_acwr"

\* C3: compute_acwr returns None exactly when the acute window has no valid
\* load, or the chronic window has none, or the chronic mean is zero; in every
\* other case acute_mean, chronic_mean and acwr are all present.
C3_AcwrAbsentIff ==
    AcwrCalled =>
        /\ ~acwr_data.present <=>
              \/ Present(AcuteWindow) = {}
              \/ Present(ChronicWindow) = {}
              \/ Total(ChronicWindow, Present(ChronicWindow)) = 0
        /\ acwr_data.present =>
              /\ IsNum(acwr_data.acute_mean)
              /\ IsNum(acwr_data.chronic_mean)
              /\ IsNum(acwr_data.acwr)
        /\ (Present(ChronicWindow) = {} /\ Present(AcuteWindow) # {})
              => ~acwr_data.present

\* the chronic window has no valid sample although the acute window has one
C3_Witness ==
    /\ AcwrCalled
    /\ Present(AcuteWindow) # {}
    /\ Present(ChronicWindow) = {}
    /\ ~acwr_data.present

\* the histories of the scenario: acute loads [300, 350], chronic loads
\* [300, 350, 200, 250, 400]
Sample(x) == [timestamp |-> 0, load |-> x]

ScenarioAcute == << Sample(Num(300, 1)), Sample(Num(350, 1)) >>

ScenarioChronic ==
    << Sample(Num(300, 1)), Sample(Num(350, 1)), Sample(Num(200, 1)),
       Sample(Num(250, 1)), Sample(Num(400, 1)) >>

Scenario == AcwrOf(ScenarioAcute, ScenarioChronic)

\* C4: a result's acute_mean and chronic_mean are the arithmetic means of the
\* present loads of their windows (absent loads count neither in the sum nor
\* in the divisor) and acwr = acute_mean / chronic_mean; loads [300, 350] over
\* [300, 350, 200, 250, 400] give 325, 300 and 325/300, which is Optimal.
C4_AcwrMeans ==
    /\ (AcwrCalled /\ acwr_data.present) =>
          /\ WholeLoads(AcuteWindow) /\ WholeLoads(ChronicWindow)
          /\ IsMeanOf(acwr_data.acute_mean, AcuteWindow)
          /\ IsMeanOf(acwr_data.chronic_mean, ChronicWindow)
          /\ acwr_data.acwr.n * acwr_data.acute_mean.d * acwr_data.chronic_mean.n
                = acwr_data.acute_mean.n * acwr_data.chronic_mean.d * acwr_data.acwr.d
    /\ Scenario.present
    /\ Eq(Scenario.acute_mean, Num(325, 1))
    /\ Eq(Scenario.chronic_mean, Num(300, 1))
    /\ Eq(Scenario.acwr, Num(325, 300))
    /\ RiskRules(Num(0, 1), Num(0, 1), Scenario.acwr) = "Optimal"

\* a result whose acute window holds an absent load next to a present one
C4_Witness ==
    /\ AcwrCalled /\ acwr_data.present
    /\ Present(AcuteWindow) # DOMAIN AcuteWindow
    /\ Cardinality(Present(ChronicWindow)) > Cardinality(Present(AcuteWindow))
    /\ ~Eq(acwr_data.acwr, Num(1, 1))

\* the rows of the log that are the user's own 'general' responses
OwnGeneral(log, u) ==
    SelectSeq(log, LAMBDA r : r.user_id = u /\ r.questionnaire_id = "general")

\* C15: the training-load history, the ACWR result and the entry the risk
\* classification reads for a user depend only on that user's saved
\* 'general' responses: they are the same with every row of another user
\* and every row of another kind taken out of the log.
C15_Isolation ==
    AcwrCalled =>
        LET own == OwnGeneral(questionnaires, op.user_id)
        IN  /\ acwr_data =
                  compute_acwr(own, clock, op.user_id, op.acute_days, op.chronic_days)
            /\ AcuteWindow =
                  get_training_load_history(own, clock, op.user_id, op.acute_days)
            /\ ChronicWindow =
                  get_training_load_history(own, clock, op.user_id, op.chronic_days)
            /\ LatestOf(get_questionnaire_history(questionnaires, clock, op.user_id,
                                                  "general", 0))
                  = LatestOf(get_questionnaire_history(own, clock, op.user_id,
                                                       "general", 0))

\* a result for user 1 from a log that also holds a response of user 2 and
\* a 'bienestar' response of user 1
C15_Witness ==
    /\ AcwrCalled /\ op.user_id = 1 /\ acwr_data.present
    /\ \E i \in DOMAIN questionnaires : questionnaires[i].user_id = 2
    /\ \E i \in DOMAIN questionnaires :
          /\ questionnaires[i].user_id = 1
          /\ questionnaires[i].questionnaire_id = "bienestar"

\* the timestamps of the user's 'general' responses no older than
\* now - days, in the order of the log
InWindow(log, now, u, days) ==
    LET rows == SelectSeq(OwnGeneral(log, u), LAMBDA r : r.timestamp >= now - days)
    IN  [i \in DOMAIN rows |-> rows[i].timestamp]

Timestamps(h) == [i \in DOMAIN h |-> h[i].timestamp]

\* C16: for every window length N >= 0 the samples of the window are
\* exactly the user's 'general' responses with timestamp >= now - N days,
\* in ascending timestamp order; none older than that contributes.
C16_WindowExact ==
    AcwrCalled =>
        /\ Timestamps(AcuteWindow) =
              InWindow(questionnaires, clock, op.user_id, op.acute_days)
        /\ Timestamps(ChronicWindow) =
              InWindow(questionnaires, clock, op.user_id, op.chronic_days)

---------------------------------------------------------------------------
(* Specification SpecEcg: load_ecg_and_compute_bpm applied to an upload    *)
(* and to the same upload with a constant added, on either detection path. *)
(* A signal of up to MaxLen samples is a baseline of slope 0 or 1 carrying *)
(* up to three spikes.                                                     *)

MaxLen == 10

SpikeCounts == 0..3

SpikeHeights == {1, 2}

Slopes == {0, 1}

FsValues == {2, 5, 8}

Offsets == {0 - 3, 1000}

SignalsOfLen(n) ==
    UNION { { [i \in 1..n |-> slope * i + (IF i \in P THEN h[i] ELSE 0)] :
                h \in [P -> SpikeHeights], slope \in Slopes } :
            P \in { Q \in SUBSET (1..n) : Cardinality(Q) \in SpikeCounts } }

\* too short to analyse: flat zero, and two clear spikes on 9 samples
ShortSignals ==
    { [i \in 1..5 |-> 0],
      [i \in 1..(MIN_SAMPLES - 1) |-> IF i \in {3, 7} THEN 2 ELSE 0] }

Frames ==
    {NoFrame} \cup
    { Frame(s) : s \in ShortSignals \cup
                       UNION { SignalsOfLen(n) : n \in MIN_SAMPLES..MaxLen } }

Shifted(frame, c) ==
    IF frame.present
    THEN Frame([i \in DOMAIN frame.signal |-> frame.signal[i] + c])
    ELSE frame

InitEcg ==
    /\ AppIdle
    /\ proc = <<>>
    /\ AnalyticsIdle
    /\ df \in Frames
    /\ fs \in FsValues
    /\ SCIPY_AVAILABLE \in BOOLEAN
    /\ offset \in Offsets
    /\ ecg = EcgPending
    /\ ecg_offset = EcgPending

LoadEcg ==
    /\ ecg.status = "pending"
    /\ ecg' = load_ecg_and_compute_bpm(df, fs, SCIPY_AVAILABLE)
    /\ UNCHANGED <<app, proc, analytics, df, fs, SCIPY_AVAILABLE, offset, ecg_offset>>

LoadEcgOffset ==
    /\ ecg.status # "pending"
    /\ ecg_offset.status = "pending"
    /\ ecg_offset' = load_ecg_and_compute_bpm(Shifted(df, offset), fs, SCIPY_AVAILABLE)
    /\ UNCHANGED <<app, proc, analytics, df, fs, SCIPY_AVAILABLE, offset, ecg>>

NextEcg == LoadEcg \/ LoadEcgOffset

SpecEcg == InitEcg /\ [][NextEcg]_vars

Returned == ecg.status = "ok"

Beats == ecg.peaks

NBeats == Len(ecg.peaks)

TooShort == ~df.present \/ Len(df.signal) < MIN_SAMPLES

\* C7: in every result BPM and HRV are absent together, and both are absent
\* when the input has fewer than 10 samples or fewer than 2 beats are
\* detected, on the primary and on the fallback path alike.
C7_AbsentTogether ==
    Returned =>
        /\ (ecg.bpm = NoneV) <=> (ecg.hrv = NoneV)
        /\ (TooShort \/ NBeats < 2) => (ecg.bpm = NoneV /\ ecg.hrv = NoneV)

\* the sum of the squared gaps between consecutive beats, in samples
RECURSIVE SumSqGaps(_)
SumSqGaps(p) ==
    IF Len(p) < 2 THEN 0
    ELSE (p[2] - p[1]) * (p[2] - p[1]) + SumSqGaps(Tail(p))

Span == Beats[NBeats] - Beats[1]

\* BPM = 60 / mean(IBI): the IBIs sum to Span / fs and there are NBeats - 1
BpmIsSixtyOverMeanIbi ==
    /\ IsNum(ecg.bpm)
    /\ ecg.bpm.n * Span = 60 * (NBeats - 1) * fs * ecg.bpm.d

\* HRV = std(IBI) * 1000: the variance is the mean square less the squared mean
HrvIsStdOfIbi ==
    /\ IsNum(ecg.hrv)
    /\ ecg.hrv.s = "1000*sqrt"
    /\ ecg.hrv.n * (NBeats - 1) * (NBeats - 1) * fs * fs =
           ((NBeats - 1) * SumSqGaps(Beats) - Span * Span) * ecg.hrv.d

\* beats [100, 350, 600] at fs = 250 give BPM 60 and HRV 0
EstimatorExample ==
    /\ Ibis(<<100, 350, 600>>, 250) = <<Num(1, 1), Num(1, 1)>>
    /\ mean_hr(<<100, 350, 600>>, 250) = Num(60, 1)
    /\ sdnn(<<100, 350, 600>>, 250) = StdMs(Num(0, 1))

\* C8 as stated: with at least 2 beats, BPM = 60 / mean(IBI) and
\* HRV = std(IBI) * 1000 for the beats of either detection path.
C8_EstimatorEitherPath ==
    /\ EstimatorExample
    /\ (Returned /\ NBeats >= 2) => (BpmIsSixtyOverMeanIbi /\ HrvIsStdOfIbi)

\* BPM = 60 * beats / duration, the duration being len(signal) / fs
BpmIsBeatsPerDuration ==
    /\ IsNum(ecg.bpm)
    /\ ecg.bpm.n * Len(df.signal) = 60 * NBeats * fs * ecg.bpm.d

\* C8 amended: with at least 2 beats HRV = std(IBI) * 1000 on either path;
\* BPM = 60 / mean(IBI) on the primary path, and on the fallback path
\* BPM = 60 * beats / (len(signal) / fs).
C8_EstimatorByPath ==
    /\ EstimatorExample
    /\ (Returned /\ NBeats >= 2) =>
          /\ HrvIsStdOfIbi
          /\ SCIPY_AVAILABLE => BpmIsSixtyOverMeanIbi
          /\ ~SCIPY_AVAILABLE => BpmIsBeatsPerDuration

C8_Witness ==
    /\ Returned /\ NBeats >= 3
    /\ ~SCIPY_AVAILABLE
    /\ BpmIsBeatsPerDuration /\ ~BpmIsSixtyOverMeanIbi
    /\ ecg.hrv.n > 0

\* the greedy forward scan: the first candidate is accepted, a later one
\* iff it is more than 0.4 * rate samples past the last accepted one
RECURSIVE GreedyScan(_, _, _)
GreedyScan(acc, cands, rate) ==
    IF cands = <<>> THEN acc
    ELSE IF acc = <<>> \/ 5 * (Head(cands) - acc[Len(acc)]) > 2 * rate
         THEN GreedyScan(Append(acc, Head(cands)), Tail(cands), rate)
         ELSE GreedyScan(acc, Tail(cands), rate)

\* the 0-based indices whose amplitude exceeds mean(signal) + std(signal)
Candidates ==
    LET S == { i \in DOMAIN df.signal :
                 LET c == Len(df.signal) * df.signal[i] - SumInt(df.signal)
                 IN  c > 0 /\ c * c > VarN2(df.signal) }
        a == Ascending(S)
    IN  [i \in DOMAIN a |-> a[i] - 1]

\* C9: the beats are strictly increasing and consecutive beats are at least
\* 0.4 * fs samples apart; on the fallback path they are exactly the greedy
\* forward scan of the indices above mean + std.
C9_BeatSpacing ==
    Returned =>
        /\ \A i \in 1..(NBeats - 1) :
              /\ Beats[i] < Beats[i + 1]
              /\ 5 * (Beats[i + 1] - Beats[i]) >= 2 * fs
        /\ (~SCIPY_AVAILABLE /\ ~TooShort) => Beats = GreedyScan(<<>>, Candidates, fs)

\* C10: the detected beats, and hence BPM and HRV, are the same for the
\* signal and for the signal with a constant added.
C10_OffsetInvariant ==
    ecg_offset.status # "pending" => ecg_offset = ecg

C10_Witness ==
    /\ ecg_offset.status = "ok"
    /\ offset = 1000
    /\ NBeats >= 2
    /\ ecg_offset.peaks = Beats
    /\ IsNum(ecg_offset.bpm)

---------------------------------------------------------------------------
(* Specification SpecApp: the callbacks of app.py over the store of db.py, *)
(* in any order, while the store fails and recovers.  latest, acwr_data    *)
(* and alerts describe the last callback when it was submit_selected.  The *)
(* two logs hold at most MaxEntries rows together.                         *)

MaxEntries == 2

Credentials ==
    { <<"ana", "secret1">>, <<"bo", "secret1">>, <<"ana", "abc">>, <<"", "secret1">> }

AppChecklists == { <<"general">>, <<"bienestar">> }

AppForms ==
    { <<Num(1, 1), Num(1, 1), Num(7, 1), Num(0, 1)>>,
      <<Num(1, 1), Num(1, 1), Str("abc"), Num(0, 1)>> }

\* ten samples with one spike
OneBeat == [i \in 1..MIN_SAMPLES |-> IF i = 4 THEN 2 ELSE 0]

GoodTable == Table(MIN_SAMPLES, TRUE, TRUE, OneBeat)

ShortTable == Table(5, TRUE, TRUE, [i \in 1..5 |-> 0])

TextTable == Table(MIN_SAMPLES, FALSE, FALSE, <<>>)

File(filename, contents) == [filename |-> filename, contents |-> contents]

GoodFile == File("good.csv", Contents(1, TRUE, GoodTable, GoodTable))

\* read_csv raises on the text with commas and reads it with semicolons
SemicolonFile == File("semicolon.csv", Contents(1, TRUE, NoTable, GoodTable))

\* read_csv raises with either separator
UnreadableFile == File("unreadable", Contents(1, TRUE, NoTable, NoTable))

\* contents without the "data:...;base64," prefix
NoCommaFile == File("nocomma", Contents(0, TRUE, NoTable, NoTable))

\* a base64 part of a length b64decode rejects
PaddingFile == File("padding", Contents(1, FALSE, NoTable, NoTable))

\* ten rows of text
TextFile == File("text.csv", Contents(1, TRUE, TextTable, TextTable))

ShortFile == File("short.csv", Contents(1, TRUE, ShortTable, ShortTable))

AppUploads ==
    { <<GoodFile>>, <<SemicolonFile>>, <<UnreadableFile>>, <<NoCommaFile>>,
      <<PaddingFile>>, <<TextFile>>, <<ShortFile>>,
      <<UnreadableFile, GoodFile>>, <<NoCommaFile, GoodFile>>,
      <<TextFile, GoodFile>>, <<GoodFile, ShortFile>> }

Entries == Len(questionnaires) + Len(sensors_data)

InitApp ==
    /\ AppIdle
    /\ proc = <<>>
    /\ AnalyticsIdle
    /\ df = NoFrame
    /\ fs = DEFAULT_FS
    /\ SCIPY_AVAILABLE = FALSE
    /\ offset = 0
    /\ ecg = EcgPending
    /\ ecg_offset = EcgPending

Unused ==
    <<responses, load, op, clock, df, fs, SCIPY_AVAILABLE, offset, ecg, ecg_offset, proc>>

\* no submit_selected is the last callback
RiskCleared ==
    /\ latest' = NoEntry
    /\ acwr_data' = NoAcwr
    /\ alerts' = "idle"

\* handle_register
HandleRegister ==
    /\ \E c \in Credentials :
          LET r == register_user(users, store_up, c[1], c[2])
          IN  /\ users' = r.users
              /\ feedback' = Feedback("handle_register", c, "none",
                                 IF c[1] = "" \/ c[2] = "" THEN "warning"
                                 ELSE IF r.ok THEN "success" ELSE "danger", <<>>)
    /\ RiskCleared
    /\ UNCHANGED <<session, page, sensors_data, store_up, questionnaires, Unused>>

\* handle_login: a user_id found is written to session-store, which makes
\* display_page due
HandleLogin ==
    /\ \E c \in Credentials :
          LET r == authenticate_user(users, store_up, clock, c[1], c[2])
          IN  IF c[1] = "" \/ c[2] = ""
              THEN /\ feedback' = Feedback("handle_login", c, "none", "warning", <<>>)
                   /\ UNCHANGED <<users, session, page>>
              ELSE /\ users' = r.users
                   /\ IF r.user_id # 0
                      THEN /\ session' = Payload(r.user_id, c[1])
                           /\ page' = [page EXCEPT !.stale = TRUE]
                           /\ feedback' = Feedback("handle_login", c, "none", "", <<>>)
                      ELSE /\ feedback' = Feedback("handle_login", c, "none", "danger", <<>>)
                           /\ UNCHANGED <<session, page>>
    /\ RiskCleared
    /\ UNCHANGED <<sensors_data, store_up, questionnaires, Unused>>

\* logout_user with a click counted
LogoutUser ==
    /\ session' = EmptySession
    /\ page' = [page EXCEPT !.stale = TRUE]
    /\ feedback' = Feedback("logout_user", <<>>, "none", "", <<>>)
    /\ RiskCleared
    /\ UNCHANGED <<users, sensors_data, store_up, questionnaires, Unused>>

\* display_page, run at the first load and on every write of session-store;
\* when it raises, page-content keeps what it showed
DisplayPage ==
    /\ page.stale
    /\ LET r == display_page(users, store_up, session)
       IN  IF r = "KeyError"
           THEN /\ page' = [page EXCEPT !.stale = FALSE]
                /\ feedback' = Feedback("display_page", <<>>, "KeyError", "", <<>>)
           ELSE /\ page' = [shown |-> r, stale |-> FALSE]
                /\ feedback' = Feedback("display_page", <<>>, "none", r, <<>>)
    /\ RiskCleared
    /\ UNCHANGED <<users, session, sensors_data, store_up, questionnaires, Unused>>

\* the questionnaires of the checklist that QUESTIONNAIRES knows
KnownOf(checklist_values) ==
    SelectSeq(checklist_values, LAMBDA q : q \in DOMAIN QUESTIONNAIRES)

FaultOf(alert) == IF alert \in {"ValueError", "TypeError"} THEN alert ELSE "none"

\* submit_selected with the session of session-store; the store's
\* exceptions are swallowed by save_questionnaire and by the reads
SubmitWith(checklist_values, all_values) ==
    IF NoActiveSession(session)
    THEN /\ feedback' = Feedback("submit_selected", <<checklist_values, all_values>>,
                            "none", "danger", <<>>)
         /\ latest' = NoEntry
         /\ acwr_data' = NoAcwr
         /\ alerts' = ""
         /\ UNCHANGED questionnaires
    ELSE LET u == session.user_id
             saved == IF store_up
                      THEN SaveSelected(questionnaires, clock, u,
                                        checklist_values, all_values, 1)
                      ELSE questionnaires
             history_general ==
                 IF store_up
                 THEN get_questionnaire_history(saved, clock, u, "general", 0)
                 ELSE <<>>
         IN  /\ Len(saved) + Len(sensors_data) <= MaxEntries
             /\ questionnaires' = saved
             /\ latest' \in LatestOf(history_general)
             /\ acwr_data' = AcwrForAlerts(latest', saved, clock, u)
             /\ alerts' = EvaluateRisk(latest', acwr_data')
             /\ feedback' =
                  Feedback("submit_selected", <<checklist_values, all_values>>,
                      FaultOf(alerts'),
                      IF FaultOf(alerts') # "none" THEN ""
                      ELSE IF KnownOf(checklist_values) # <<>> THEN "success"
                      ELSE "warning",
                      KnownOf(checklist_values))

SubmitApp ==
    /\ \E checklist_values \in AppChecklists, all_values \in AppForms :
          SubmitWith(checklist_values, all_values)
    /\ UNCHANGED <<users, session, page, sensors_data, store_up, Unused>>

\* handle_upload past its loop: the table, the figure and the alerts
UploadOutcome(files, u, r) ==
    /\ Len(questionnaires) + Len(r.log) <= MaxEntries
    /\ sensors_data' = r.log
    /\ feedback' =
         Feedback("handle_upload", files, r.fault,
             IF r.fault # "none" THEN ""
             ELSE IF get_sensor_history(r.log, store_up, u) = <<>>
             THEN "empty_fig" ELSE "fig",
             r.outputs)

\* handle_upload with the session of session-store
HandleUploadWith(files) ==
    IF NoActiveSession(session)
    THEN /\ feedback' = Feedback("handle_upload", files, "none", "danger", <<>>)
         /\ UNCHANGED sensors_data
    ELSE UploadOutcome(files, session.user_id,
             ProcessFiles(sensors_data, store_up, clock, session.user_id, files, 1,
                          <<>>, SCIPY_AVAILABLE))

HandleUpload ==
    /\ \E files \in AppUploads : HandleUploadWith(files)
    /\ RiskCleared
    /\ UNCHANGED <<users, session, page, store_up, questionnaires, Unused>>

ReadCalls ==
    { "compute_acwr", "get_training_load_history", "get_questionnaire_history",
      "get_sensor_history", "export_user_data_csv" }

\* the reads: what each returns for a user, as the number of rows or the
\* ratio; the store's exceptions give [] and None
ReadResult(name, u) ==
    CASE name = "compute_acwr" ->
           IF store_up
           THEN compute_acwr(questionnaires, clock, u, ACUTE_DAYS, CHRONIC_DAYS).acwr
           ELSE NoneV
      [] name = "get_training_load_history" ->
           IF store_up
           THEN Num(Len(get_training_load_history(questionnaires, clock, u, 0)), 1)
           ELSE Num(0, 1)
      [] name = "get_questionnaire_history" ->
           IF store_up
           THEN Num(Len(get_questionnaire_history(questionnaires, clock, u, "", 0)), 1)
           ELSE Num(0, 1)
      [] name = "get_sensor_history" ->
           Num(Len(get_sensor_history(sensors_data, store_up, u)), 1)
      [] OTHER ->
           Num((IF store_up
                THEN Len(get_questionnaire_history(questionnaires, clock, u, "", 0))
                ELSE 0) + Len(get_sensor_history(sensors_data, store_up, u)), 1)

\* compute_acwr, the history reads and the export for the session's user
Read ==
    /\ ~NoActiveSession(session)
    /\ \E name \in ReadCalls :
          feedback' = Feedback(name, session.user_id, "none",
                               ReadResult(name, session.user_id), <<>>)
    /\ RiskCleared
    /\ UNCHANGED <<users, session, page, sensors_data, store_up, questionnaires, Unused>>

\* the database becomes unreachable, or reachable again
StoreChanges ==
    /\ store_up' = ~store_up
    /\ UNCHANGED <<users, session, page, sensors_data, feedback, questionnaires,
                   latest, acwr_data, alerts, Unused>>

NextApp ==
    \/ HandleRegister
    \/ HandleLogin
    \/ LogoutUser
    \/ DisplayPage
    \/ SubmitApp
    \/ HandleUpload
    \/ Read
    \/ StoreChanges

SpecApp == InitApp /\ [][NextApp]_vars

---------------------------------------------------------------------------
(* Claims on SpecApp                                                       *)

\* the last callback was handle_upload with a user in session-store
Uploaded == feedback.callback = "handle_upload" /\ feedback.message # "danger"

\* the last callback was submit_selected with a user in session-store
SubmittedApp == feedback.callback = "submit_selected" /\ feedback.message # "danger"

\* C11: for every upload payload parse_csv_contents returns a table or
\* None and never raises: the first file of an upload, which handle_upload
\* always hands to it, gives a DataFrame or None.
C11_ParseTotal ==
    Uploaded =>
        parse_csv_contents(feedback.args[1].contents).status \in {"df", "None"}

\* every file of the last upload was parsed into a DataFrame
AllParsed ==
    \A k \in DOMAIN feedback.args :
        parse_csv_contents(feedback.args[k].contents).status = "df"

\* C12: the risk evaluation of submit_selected, whatever the stored
\* responses hold, and the pipeline of handle_upload, whatever the parsed
\* tables hold, complete and raise no fault.
C12_SilentAbsent ==
    /\ SubmittedApp => feedback.fault = "none"
    /\ Uploaded /\ AllParsed => feedback.fault = "none"

\* a callback that saves to or reads from the store ran for the session's
\* user while the store was failing
RanWithoutStore ==
    /\ ~store_up /\ ~store_up'
    /\ ~NoActiveSession(session)
    /\ feedback' # feedback
    /\ feedback'.callback \in {"submit_selected", "handle_upload", "compute_acwr"}

\* C13: when the store fails during save_questionnaire, save_sensor_data,
\* get_questionnaire_history or get_sensor_history, the calling operation
\* (submit_selected, handle_upload, compute_acwr) observes a failure.
C13_StoreFaultPropagates ==
    [][RanWithoutStore => feedback'.fault # "none"]_vars

\* every row of the log before the step is the same row after it
Kept(log_before, log_after) ==
    /\ Len(log_before) <= Len(log_after)
    /\ \A i \in DOMAIN log_before : log_after[i] = log_before[i]

\* C14: the questionnaire log and the sensor-reading log are append-only:
\* every callback and every read leaves each saved entry in place with its
\* user, kind, values, BPM/HRV and timestamp, and a step that ends in a
\* read or compute operation adds no entry.
C14_AppendOnly ==
    [][/\ Kept(questionnaires, questionnaires')
       /\ Kept(sensors_data, sensors_data')
       /\ feedback'.callback \in ReadCalls =>
              UNCHANGED <<questionnaires, sensors_data>>]_vars

\* both logs hold an entry and compute_acwr has just read them
C14_Witness ==
    /\ questionnaires # <<>>
    /\ sensors_data # <<>>
    /\ feedback.callback = "compute_acwr"

\* C20: display_page completes without a fault and shows the dashboard
\* exactly when session-store holds a user_id, the login page otherwise.
C20_PageFollowsSession ==
    /\ feedback.callback = "display_page" => feedback.fault = "none"
    /\ ~page.stale => (page.shown = "dashboard" <=> HasUserId(session))

\* the files of an upload that parse_csv_contents turns into a table
ParsedFiles(files) ==
    { k \in DOMAIN files : parse_csv_contents(files[k].contents).status = "df" }

\* C17: in a multi-file upload every file that parses appends exactly one
\* reading for the session's user, a file that fails to parse appends none
\* and is reported, and no file keeps the later files from being processed:
\* the table grows by the number of files that parse and every file has
\* its alert.
C17_FilesIndependent ==
    [][\A files \in AppUploads :
          ~NoActiveSession(session) /\ store_up /\ HandleUploadWith(files) =>
              /\ Len(sensors_data') = Len(sensors_data) + Cardinality(ParsedFiles(files))
              /\ Len(feedback'.saved) = Len(files)]_vars

---------------------------------------------------------------------------
(* Specification SpecRace: two sessions of one user running submit_selected *)
(* and compute_acwr at once.  Every db.py call opens its own connection, so *)
(* a callback is a sequence of steps, one per statement on the store, and   *)
(* the steps of the two sessions interleave while the clock advances.       *)

MaxRaceLog == 2

Sessions == {1, 2}

\* both sessions are logged in as this user
RaceUser == 1

\* all_values of the 'general' form: dolor 7 and dolor 0
RaceForms ==
    { <<Num(3, 1), Num(1, 1), Num(7, 1), Num(0, 1)>>,
      <<Num(3, 1), Num(1, 1), Num(0, 1), Num(0, 1)>> }

\* <<acute_days, chronic_days>> of the compute_acwr calls, with
\* acute_days <= chronic_days; submit_selected calls it with the defaults
RaceDays == { <<0, 1>>, <<1, 1>> }

\* the locals of a call: the row it saved, the entry it took as latest, the
\* acute history it holds while it reads the chronic one, and what it
\* returned
Locals(pc, call, days, saved, lat, acute, result, alert) ==
    [pc |-> pc, call |-> call, days |-> days, saved |-> saved, latest |-> lat,
     acute |-> acute, result |-> result, alert |-> alert]

NoCall == Locals("idle", "none", <<0, 0>>, 0, NoEntry, <<>>, NoAcwr, "")

InitRace ==
    /\ AppIdle
    /\ SensorIdle
    /\ StoreIdle
    /\ RiskIdle
    /\ responses = NoResponses
    /\ load = Pending
    /\ proc = [p \in Sessions |-> NoCall]

RaceUnused ==
    <<responses, load, latest, acwr_data, alerts, op, sensor, app>>

Free(p) == proc[p].pc \in {"idle", "done"}

\* submit_selected up to the end of its loop: save_questionnaire
Save(p) ==
    /\ Free(p)
    /\ \E all_values \in RaceForms :
          LET saved == SaveSelected(questionnaires, clock, RaceUser, <<"general">>,
                                    all_values, 1)
          IN  /\ Len(saved) <= MaxRaceLog
              /\ questionnaires' = saved
              /\ proc' = [proc EXCEPT ![p] =
                      [NoCall EXCEPT !.pc = "saved", !.call = "submit_selected",
                                     !.days = <<ACUTE_DAYS, CHRONIC_DAYS>>,
                                     !.saved = Len(saved)]]
    /\ UNCHANGED <<clock, RaceUnused>>

\* submit_selected: the read of history_general and the two float() calls
ReadLatest(p) ==
    /\ proc[p].pc = "saved"
    /\ \E lat \in LatestOf(get_questionnaire_history(questionnaires, clock, RaceUser,
                                                      "general", 0)) :
          proc' = [proc EXCEPT ![p] =
              IF lat.id = 0 \/ FaultOf(EvaluateRisk(lat, NoAcwr)) # "none"
              THEN [@ EXCEPT !.pc = "done", !.latest = lat,
                             !.alert = EvaluateRisk(lat, NoAcwr)]
              ELSE [@ EXCEPT !.pc = "acute", !.latest = lat]]
    /\ UNCHANGED <<questionnaires, clock, RaceUnused>>

\* a call of compute_acwr(user_id, acute_days, chronic_days)
CallAcwr(p) ==
    /\ Free(p)
    /\ \E dd \in RaceDays :
          proc' = [proc EXCEPT ![p] =
              [NoCall EXCEPT !.pc = "acute", !.call = "compute_acwr", !.days = dd]]
    /\ UNCHANGED <<questionnaires, clock, RaceUnused>>

\* compute_acwr: acute = get_training_load_history(user_id, days=acute_days),
\* kept as the rows it is computed from
ReadAcute(p) ==
    /\ proc[p].pc = "acute"
    /\ proc' = [proc EXCEPT ![p] =
            [@ EXCEPT !.pc = "chronic",
                      !.acute = get_questionnaire_history(questionnaires, clock,
                                    RaceUser, "general", proc[p].days[1])]]
    /\ UNCHANGED <<questionnaires, clock, RaceUnused>>

\* the loads of get_training_load_history from the rows it has read
LoadsOf(history) ==
    [i \in DOMAIN history |->
        [timestamp |-> history[i].timestamp,
         load |-> compute_session_load_from_responses(history[i].responses)]]

\* what the call returns once compute_acwr has its result
Finish(locals, result) ==
    [locals EXCEPT !.pc = "done", !.acute = <<>>, !.result = result,
                   !.alert = IF locals.call = "submit_selected"
                             THEN EvaluateRisk(locals.latest, result) ELSE ""]

\* compute_acwr: chronic = get_training_load_history(user_id,
\* days=chronic_days) and the means; in submit_selected the alert follows
ReadChronic(p) ==
    /\ proc[p].pc = "chronic"
    /\ proc' = [proc EXCEPT ![p] =
            Finish(proc[p],
                   AcwrOf(LoadsOf(proc[p].acute),
                          LoadsOf(get_questionnaire_history(questionnaires, clock,
                                      RaceUser, "general", proc[p].days[2]))))]
    /\ UNCHANGED <<questionnaires, clock, RaceUnused>>

\* a day passes, up to the day after the longest window of RaceDays
TickRace ==
    /\ \E dd \in RaceDays : clock <= dd[2]
    /\ clock' = clock + 1
    /\ UNCHANGED <<questionnaires, proc, RaceUnused>>

NextRace ==
    \/ \E p \in Sessions : Save(p)
    \/ \E p \in Sessions : ReadLatest(p)
    \/ \E p \in Sessions : CallAcwr(p)
    \/ \E p \in Sessions : ReadAcute(p)
    \/ \E p \in Sessions : ReadChronic(p)
    \/ TickRace

SpecRace == InitRace /\ [][NextRace]_vars

Ids(history) == { history[i].id : i \in DOMAIN history }

\* C18: for acute_days <= chronic_days, under every interleaving with
\* saves of the same user, every sample counted in the acute mean of a
\* compute_acwr call is also counted in its chronic mean.
C18_AcuteWithinChronic ==
    [][\A p \in Sessions :
          (/\ proc[p].pc = "chronic" /\ proc'[p].pc = "done"
           /\ proc[p].days[1] <= proc[p].days[2]) =>
              Ids(proc[p].acute) \subseteq
                  Ids(get_questionnaire_history(questionnaires, clock, RaceUser,
                                                "general", proc[p].days[2]))]_vars

\* the call of session p has read history_general
HasEvaluated(p) ==
    proc[p].call = "submit_selected" /\ proc[p].pc \in {"acute", "chronic", "done"}

\* C19 as stated: the pain and fatigue values submit_selected evaluates are
\* those of the response it has just saved, under every interleaving with
\* a second session of the same user and with equal timestamps.
C19_EvaluatesOwnSave ==
    \A p \in Sessions :
        HasEvaluated(p) => /\ proc[p].latest.id = proc[p].saved
                        /\ proc[p].latest.responses
                              = questionnaires[proc[p].saved].responses

\* the 'general' rows of the user in the log
GeneralRows == { i \in DOMAIN questionnaires :
                   /\ questionnaires[i].user_id = RaceUser
                   /\ questionnaires[i].questionnaire_id = "general" }

\* C19, amended: the entry submit_selected evaluates is a 'general'
\* response of the user with the greatest timestamp in the log at the time
\* of the read; it is the response just saved whenever no other 'general'
\* response of the user bears an equal or later timestamp at that time.
C19_EvaluatesLatestGeneral ==
    [][\A p \in Sessions :
          (proc[p].pc = "saved" /\ proc'[p].pc # "saved") =>
              LET lat == proc'[p].latest
                  own == proc[p].saved
              IN  /\ lat.id \in GeneralRows
                  /\ lat.responses = questionnaires[lat.id].responses
                  /\ lat.timestamp = questionnaires[lat.id].timestamp
                  /\ \A i \in GeneralRows :
                        questionnaires[i].timestamp <= lat.timestamp
                  /\ (\A i \in GeneralRows \ {own} :
                         questionnaires[i].timestamp < questionnaires[own].timestamp)
                        => lat.id = own]_vars

\* a session has evaluated the response another session saved after its
\* own save, and returned its alert
C19_Witness ==
    \E p \in Sessions :
        /\ HasEvaluated(p) /\ proc[p].pc = "done"
        /\ proc[p].latest.id > proc[p].saved
        /\ proc[p].alert = "HighRisk"
        /\ Get(questionnaires[proc[p].saved].responses, "dolor") = Num(0, 1)

===========================================================================
